---- MODULE Spec2Model ----
(***************************************************************************)
(* A model of the documentation crawler of doc-fetcher                     *)
(* (src/scripts/api_docs_fetcher.py): the URL filter, the fetcher with its *)
(* rendered/static backends, and the crawl loop of crawl_documentation.    *)
(*                                                                         *)
(* A URL is a sequence of tokens: the tokens of the network location, then *)
(* the path tokens, then optionally "?" and a query token, then optionally *)
(* "#" and a fragment token.  A title is a sequence of character tokens.   *)
(***************************************************************************)
EXTENDS Integers, Sequences, FiniteSets, TLC

VARIABLES
    config,             \* FetcherConfig, fixed during one crawl
    site,               \* the web site crawled: URL -> [links, title]
    PLAYWRIGHT_AVAILABLE, \* whether the playwright import succeeded
    visited_urls,       \* self.visited_urls
    failed_urls,        \* self.failed_urls
    successful_pages,   \* self.successful_pages
    created_files,      \* created_files of crawl_documentation (its keys)
    disk,               \* the output directory: set of [name, url] files
    base_idx,           \* position of the for loop over config.base_urls
    pages_to_process,   \* the frontier of the current base URL
    processed_count,    \* pages processed for the current base URL
    pc,                 \* "base", "loop" or "done"
    net,                \* requests issued and sleeps taken, in order
    enqueued,           \* every URL put into a frontier, in order
    dequeued,           \* every URL popped from a frontier, in order
    index,              \* README.md of the output directory
    process,            \* the crawler process run by main: output, exit status
    call,               \* a call of a function of the extractor or renderer
    batch,              \* fetch_all_extracted_links.py: its lists and report
    extractor           \* extract_all_links.py: the state of extract_all_links

vars == <<config, site, PLAYWRIGHT_AVAILABLE, visited_urls, failed_urls,
          successful_pages, created_files, disk, base_idx, pages_to_process,
          processed_count, pc, net, enqueued, dequeued, index, process,
          call, batch, extractor>>

----------------------------------------------------------------------------
(* Bounds of the model and constants of the program *)

\* max_depth ranges over 0..MaxDepth on the small sites
MaxDepth == 2
\* the chain site has pages p00 .. p(ChainLen), each linking to the next
ChainLen == 22
\* max_depth used on the chain site, so that every page widens the frontier
ChainDepth == 25
\* "while pages_to_process and processed_count < 20"
PageLimit == 20
\* "for link in page_content.get('navigation_links', [])[:5]"
LinksPerPage == 5

----------------------------------------------------------------------------
(* Sequences *)

Range(s) == {s[i] : i \in 1..Len(s)}

Last(s) == s[Len(s)]

Min(a, b) == IF a < b THEN a ELSE b

\* s[:n]
Take(s, n) == SubSeq(s, 1, Min(n, Len(s)))

\* the index of the first element of s that is in T, or Len(s)+1
FirstIn(s, T) ==
    IF \E i \in 1..Len(s) : s[i] \in T
    THEN CHOOSE i \in 1..Len(s) : s[i] \in T /\ \A j \in 1..(i-1) : s[j] \notin T
    ELSE Len(s) + 1

\* s.split(sep)[0]
SplitFirst(s, sep) == SubSeq(s, 1, FirstIn(s, {sep}) - 1)

\* every list holding each element of the set S exactly once
Orderings(S) ==
    {f \in [1..Cardinality(S) -> S] : \A i, j \in 1..Cardinality(S) : f[i] = f[j] => i = j}

\* the events added to a log by the step
Added(old, new) == SubSeq(new, Len(old) + 1, Len(new))

IsPrefix(s, t) == Len(s) <= Len(t) /\ SubSeq(t, 1, Len(s)) = s

NoDuplicates(s) == \A i, j \in 1..Len(s) : s[i] = s[j] => i = j

----------------------------------------------------------------------------
(* URLs *)

HostTokens == {"www.", "h1", "ext", ".", "io"}

\* urlparse(url).netloc
netloc(url) == SubSeq(url, 1, FirstIn(url, (Range(url) \ HostTokens)) - 1)

\* the index of the last element of s that is in T, or Len(s)+1
LastIn(s, T) ==
    IF \E i \in 1..Len(s) : s[i] \in T
    THEN CHOOSE i \in 1..Len(s) : s[i] \in T /\ \A j \in (i+1)..Len(s) : s[j] \notin T
    ELSE Len(s) + 1

\* href.rsplit('#', 1)[0].rsplit('?', 1)[0]: cuts at the last separators
clean_url_at_last(href) ==
    LET s == SubSeq(href, 1, LastIn(href, {"#"}) - 1)
    IN  SubSeq(s, 1, LastIn(s, {"?"}) - 1)

\* href.split('#')[0].split('?')[0]
clean_url(href) == SplitFirst(SplitFirst(href, "#"), "?")

\* re.IGNORECASE on the tokens of the model
Lower(tok) == IF tok = "/B" THEN "/b" ELSE tok

LowerSeq(s) == [i \in 1..Len(s) |-> Lower(s[i])]

\* re.search(pattern, url, re.IGNORECASE) for a literal pattern
re_search(pattern, url) ==
    \E i \in 1..(Len(url) - Len(pattern) + 1) :
        LowerSeq(SubSeq(url, i, i + Len(pattern) - 1)) = LowerSeq(pattern)

Digit == <<"0", "1", "2", "3", "4", "5", "6", "7", "8", "9">>

A == <<"h1", "/a">>
Afrag == <<"h1", "/a", "#", "top">>
Aquery == <<"h1", "/a", "?", "v2">>
B == <<"h1", "/b">>
C == <<"h1", "/c">>
W == <<"www.", "h1", "/w">>
X == <<"ext", ".", "io", "/x">>
Hub == <<"h1", "/hub">>
Leaf(n) == <<"h1", "/leaf", Digit[n + 1]>>
P(n) == <<"h1", "/p", Digit[(n \div 10) + 1], Digit[(n % 10) + 1]>>

Leaves == {Leaf(n) : n \in 1..(LinksPerPage + 1)}
ChainPages == {P(n) : n \in 0..ChainLen}
Urls == {A, Afrag, Aquery, B, C, W, X, Hub} \cup Leaves \cup ChainPages


----------------------------------------------------------------------------
(* Titles and file names *)

WordTokens == {"API", "Docs", "Guide", "v2", "Untitled"}
SpaceTokens == {" "}

\* re.sub(r'[^\w\s-]', '', title)
RemoveUnsafe(title) ==
    SelectSeq(title, LAMBDA t : t \in WordTokens \cup SpaceTokens \cup {"-"})

\* str.strip()
RECURSIVE Strip(_)
Strip(s) ==
    IF s = <<>> THEN s
    ELSE IF Head(s) \in SpaceTokens THEN Strip(Tail(s))
    ELSE IF Last(s) \in SpaceTokens THEN Strip(SubSeq(s, 1, Len(s) - 1))
    ELSE s

\* re.sub(r'[-\s]+', '-', s)
RECURSIVE CollapseRuns(_)
CollapseRuns(s) ==
    IF s = <<>> THEN s
    ELSE IF Head(s) \in SpaceTokens \cup {"-"}
         THEN IF Len(s) > 1 /\ s[2] \in SpaceTokens \cup {"-"}
              THEN CollapseRuns(Tail(s))
              ELSE <<"-">> \o CollapseRuns(Tail(s))
         ELSE <<Head(s)>> \o CollapseRuns(Tail(s))

safe_title(title) == CollapseRuns(Strip(RemoveUnsafe(title)))

\* parsed_url.netloc.replace('www.', '').replace('.', '_')
api_name(base_url) ==
    LET host == SelectSeq(netloc(base_url), LAMBDA t : t # "www.")
    IN  [i \in 1..Len(host) |-> IF host[i] = "." THEN "_" ELSE host[i]]

\* a filename without the sequence number of the page
Filename_without_seq(base_url, count, title) ==
    [api |-> api_name(base_url), seq |-> 0, slug |-> safe_title(title)]

\* f"{api_name}_{processed_count:02d}_{safe_title}.md"
Filename(base_url, count, title) ==
    [api |-> api_name(base_url), seq |-> count, slug |-> safe_title(title)]

----------------------------------------------------------------------------
(* The sites crawled.  A page holds the hrefs found under its navigation   *)
(* selectors, in document order and already absolute, and its title.       *)

TitleDocs == <<"Docs">>
TitleApi == <<" ", "API", " ", "-", " ", "Docs", "!">>
TitleGuide == <<"Guide", " ", "v2">>

Page(links, title) == [links |-> links, title |-> title]

NoPage == Page(<<>>, TitleDocs)

\* a documentation site whose pages link to each other
SiteDocs ==
    [u \in Urls |->
        CASE u = A -> Page(<<B, C, B>>, TitleDocs)
          [] u = B -> Page(<<A>>, TitleApi)
          [] u = C -> Page(<<B, A>>, TitleDocs)
          [] u = W -> Page(<<A>>, TitleDocs)
          [] OTHER -> NoPage]

\* a page that links to itself with a fragment and to another host, which
\* links back with a query string
SiteAnchors ==
    [u \in Urls |->
        CASE u \in {A, Afrag} -> Page(<<Afrag, X>>, TitleGuide)
          [] u = X -> Page(<<Aquery, A>>, TitleApi)
          [] u = Aquery -> Page(<<A>>, TitleGuide)
          [] u = W -> Page(<<A>>, TitleDocs)
          [] OTHER -> NoPage]

\* a hub with more navigation links than are followed from one page
SiteStar ==
    [u \in Urls |->
        CASE u = Hub -> Page([n \in 1..(LinksPerPage + 1) |-> Leaf(n)], TitleDocs)
          [] u \in Leaves -> Page(<<Hub>>, TitleGuide)
          [] OTHER -> NoPage]

\* a chain of more pages than the page limit
SiteChain ==
    [u \in Urls |->
        IF \E n \in 0..(ChainLen - 1) : u = P(n)
        THEN Page(<<P((CHOOSE n \in 0..(ChainLen - 1) : u = P(n)) + 1)>>, TitleDocs)
        ELSE NoPage]

Patterns == {<<>>, <<<<"/B">>>>}

\* base_urls, max_depth, include_patterns, exclude_patterns,
\* follow_external_links and use_playwright; create_index has its default
FetcherConfig(urls, depth, include, exclude, external, playwright) ==
    [base_urls |-> urls, max_depth |-> depth,
     include_patterns |-> include, exclude_patterns |-> exclude,
     follow_external_links |-> external,
     use_playwright |-> playwright, create_index |-> TRUE]

SmallConfigs ==
    {FetcherConfig(b, d, i, e, x, p) :
        b \in {<<A>>, <<A, B>>, <<X, A>>, <<A, W>>}, d \in 0..MaxDepth,
        i \in Patterns, e \in Patterns, x \in BOOLEAN, p \in BOOLEAN}

StarConfigs ==
    {FetcherConfig(<<Hub>>, 1, <<>>, <<>>, FALSE, FALSE)}

ChainConfigs ==
    {FetcherConfig(<<P(0)>>, ChainDepth, <<>>, <<>>, FALSE, FALSE)}


\* a site, a configuration, and whether playwright can be imported
Scenarios ==
    ({SiteDocs, SiteAnchors} \X SmallConfigs \X BOOLEAN)
        \cup ({SiteStar} \X StarConfigs \X {TRUE})
        \cup ({SiteChain} \X ChainConfigs \X {FALSE})

----------------------------------------------------------------------------
(* The filter and the fetcher *)

\* should_fetch_url without its test of the visited set
should_fetch_url_ignoring_visited(visited, url) ==
    /\ \/ config.follow_external_links
       \/ netloc(url) \in {netloc(config.base_urls[i]) : i \in 1..Len(config.base_urls)}
    /\ \/ config.include_patterns = <<>>
       \/ \E i \in 1..Len(config.include_patterns) :
              re_search(config.include_patterns[i], url)
    /\ \/ config.exclude_patterns = <<>>
       \/ ~ \E i \in 1..Len(config.exclude_patterns) :
                re_search(config.exclude_patterns[i], url)

\* should_fetch_url where a match of an include pattern accepts the URL
\* before the host and the exclude patterns are looked at
should_fetch_url_include_wins(visited, url) ==
    /\ url \notin visited
    /\ \/ \E i \in 1..Len(config.include_patterns) :
              re_search(config.include_patterns[i], url)
       \/ /\ config.include_patterns = <<>>
          /\ \/ config.follow_external_links
             \/ netloc(url) \in {netloc(config.base_urls[i]) : i \in 1..Len(config.base_urls)}
          /\ ~ \E i \in 1..Len(config.exclude_patterns) :
                   re_search(config.exclude_patterns[i], url)

\* APIDocsFetcher.should_fetch_url, with self.visited_urls as visited
should_fetch_url(visited, url) ==
    /\ url \notin visited
    /\ \/ config.follow_external_links
       \/ netloc(url) \in {netloc(config.base_urls[i]) : i \in 1..Len(config.base_urls)}
    /\ \/ config.include_patterns = <<>>
       \/ \E i \in 1..Len(config.include_patterns) :
              re_search(config.include_patterns[i], url)
    /\ \/ config.exclude_patterns = <<>>
       \/ ~ \E i \in 1..Len(config.exclude_patterns) :
                re_search(config.exclude_patterns[i], url)

Request(kind, url, ok) == [kind |-> kind, url |-> url, ok |-> ok]

\* time.sleep(self.config.delay_seconds) after the fetch of url
Sleep(url) == [kind |-> "sleep", url |-> url, ok |-> TRUE]

FetchResult(soup, visited, failed, log) ==
    [soup |-> soup, visited |-> visited, failed |-> failed, net |-> log]

\* fetch_page returns None as the filter rejects the URL
fetch_rejected(url) == FetchResult(FALSE, visited_urls, failed_urls, net)

\* the rendered fetch succeeds
fetch_rendered(url) ==
    FetchResult(TRUE, visited_urls \cup {url}, failed_urls,
                net \o <<Request("render", url, TRUE), Sleep(url)>>)

\* fetch_static marking the cleaned URL as visited instead of the URL
fetch_static_marks_clean(url, log) ==
    FetchResult(TRUE, visited_urls \cup {clean_url(url)}, failed_urls,
                log \o <<Request("static", url, TRUE), Sleep(url)>>)

\* the static fetch succeeds, after the requests of log
fetch_static(url, log) ==
    FetchResult(TRUE, visited_urls \cup {url}, failed_urls,
                log \o <<Request("static", url, TRUE), Sleep(url)>>)

\* fetch_failed without the append to failed_urls
fetch_failed_unrecorded(url, log) ==
    FetchResult(FALSE, visited_urls, failed_urls,
                Append(log, Request("static", url, FALSE)))

\* the static fetch raises: the outer except clause
fetch_failed(url, log) ==
    FetchResult(FALSE, visited_urls, Append(failed_urls, url),
                Append(log, Request("static", url, FALSE)))

\* the log after a failed rendered fetch: the inner except clause falls
\* through to the static fetch
render_failed(url) == Append(net, Request("render", url, FALSE))

\* fetch_page whose rendering errors reach the outer except clause, so
\* that no static fetch follows a failed rendering
fetch_page_no_fallback(url, render_ok, static_ok) ==
    IF ~should_fetch_url(visited_urls, url) THEN fetch_rejected(url)
    ELSE IF config.use_playwright /\ PLAYWRIGHT_AVAILABLE
         THEN IF render_ok THEN fetch_rendered(url)
              ELSE FetchResult(FALSE, visited_urls, Append(failed_urls, url),
                               render_failed(url))
    ELSE IF static_ok THEN fetch_static(url, net) ELSE fetch_failed(url, net)

\* APIDocsFetcher.fetch_page; render_ok and static_ok are what the two
\* backends would do with the URL
fetch_page(url, render_ok, static_ok) ==
    IF ~should_fetch_url(visited_urls, url) THEN fetch_rejected(url)
    ELSE IF config.use_playwright /\ PLAYWRIGHT_AVAILABLE /\ render_ok
         THEN fetch_rendered(url)
    ELSE LET log == IF config.use_playwright /\ PLAYWRIGHT_AVAILABLE
                    THEN render_failed(url) ELSE net
         IN  IF static_ok THEN fetch_static(url, log) ELSE fetch_failed(url, log)

----------------------------------------------------------------------------
(* Extraction *)

\* the links of find_navigation_links before list(set(links)) orders them
find_navigation_links(visited, url) ==
    {l \in Range(site[url].links) : should_fetch_url(visited, l)}

\* extract_title: the stripped text of the first title element that has
\* any, "Untitled" when the document has none
extract_title(text) ==
    IF Strip(text) # <<>> THEN Strip(text) ELSE <<"Untitled">>

\* extract_page_content; nav is list(set(links)), in the order the set
\* happens to iterate. "if not soup: return {}" is never taken for a parsed
\* document: a BeautifulSoup object is true whatever it holds
extract_page_content(url, nav) ==
    [url |-> url, title |-> extract_title(site[url].title), navigation_links |-> nav]

----------------------------------------------------------------------------
(* The crawl loop *)

base_url == config.base_urls[base_idx]

\* the loop test with <= for <
loop_continues_off_by_one ==
    pages_to_process # <<>> /\ processed_count <= PageLimit

\* "while pages_to_process and processed_count < 20"
loop_continues == pages_to_process # <<>> /\ processed_count < PageLimit

\* pages_to_process.pop(): the last URL instead of the first
pop_last(queue) == [url |-> Last(queue), rest |-> SubSeq(queue, 1, Len(queue) - 1)]

\* pages_to_process.pop(0): the URL taken and the queue left
pop(queue) == [url |-> Head(queue), rest |-> Tail(queue)]

next_url == pop(pages_to_process).url

rest_of_queue == pop(pages_to_process).rest

\* links_to_follow without the [:5] slice
links_to_follow_all(page) ==
    IF processed_count < config.max_depth
    THEN page.navigation_links
    ELSE <<>>

\* the links of the page that are offered to the frontier
links_to_follow(page) ==
    IF processed_count < config.max_depth
    THEN Take(page.navigation_links, LinksPerPage)
    ELSE <<>>

\* "if link not in pages_to_process and link not in self.visited_urls"
may_enqueue(queue, visited, link) == link \notin Range(queue) /\ link \notin visited

\* the for loop appending the links to the frontier
RECURSIVE add_links(_, _, _)
add_links(queue, visited, links) ==
    IF links = <<>> THEN queue
    ELSE add_links(IF may_enqueue(queue, visited, Head(links))
                   THEN Append(queue, Head(links)) ELSE queue,
                   visited, Tail(links))

Entry(url) == [base |-> base_idx, url |-> url]

EntriesOf(s) == [i \in 1..Len(s) |-> Entry(s[i])]

\* open(file_path, 'w') and write
write_file(files, name, url) ==
    {f \in files : f.name # name} \cup {[name |-> name, url |-> url]}

NoIndex == [written |-> FALSE, files |-> {}, successful |-> 0, failed |-> <<>>]

\* the crawler process before main has left crawl_documentation
Running == [running |-> TRUE, stdout |-> <<>>, exit_status |-> 0, wrapper_status |-> 0]

NoCall == [fn |-> "none"]

\* the batch runner and the link extractor before they are started
NoBatch == [links |-> <<>>, successful |-> <<>>, failed |-> <<>>, runs |-> <<>>,
            results |-> <<>>, pc |-> "idle"]

NoExtractor == [visited |-> {}, to_visit |-> <<>>, all_links |-> {}, page_count |-> 0,
                fetched |-> <<>>, pc |-> "idle"]

\* the state after APIDocsFetcher(config), for a scenario of the set S
InitWith(S) ==
    /\ \E sc \in S :
          site = sc[1] /\ config = sc[2] /\ PLAYWRIGHT_AVAILABLE = sc[3]
    /\ visited_urls = {}
    /\ failed_urls = <<>>
    /\ successful_pages = <<>>
    /\ created_files = {}
    /\ disk = {}
    /\ base_idx = 1
    /\ pages_to_process = <<>>
    /\ processed_count = 0
    /\ pc = "base"
    /\ net = <<>>
    /\ enqueued = <<>>
    /\ dequeued = <<>>
    /\ index = NoIndex
    /\ process = Running
    /\ call = NoCall
    /\ batch = NoBatch
    /\ extractor = NoExtractor

Init == InitWith(Scenarios)

\* "for base_url in self.config.base_urls": seed the frontier
StartBase ==
    /\ pc = "base"
    /\ base_idx <= Len(config.base_urls)
    /\ pages_to_process' = <<base_url>>
    /\ processed_count' = 0
    /\ enqueued' = Append(enqueued, Entry(base_url))
    /\ pc' = "loop"
    /\ UNCHANGED <<config, site, PLAYWRIGHT_AVAILABLE, visited_urls, failed_urls,
                   successful_pages, created_files, disk, base_idx, net,
                   dequeued, index>>
    /\ UNCHANGED <<process, call, batch, extractor>>

\* the visited test on pages_to_process[0] without the pop: the URL stays
\* at the head of the frontier
SkipVisited_without_pop ==
    /\ pc = "loop"
    /\ loop_continues
    /\ next_url \in visited_urls
    /\ UNCHANGED vars

\* "if url in self.visited_urls: continue"
SkipVisited ==
    /\ pc = "loop"
    /\ loop_continues
    /\ next_url \in visited_urls
    /\ pages_to_process' = rest_of_queue
    /\ dequeued' = Append(dequeued, Entry(next_url))
    /\ UNCHANGED <<config, site, PLAYWRIGHT_AVAILABLE, visited_urls, failed_urls,
                   successful_pages, created_files, disk, base_idx,
                   processed_count, pc, net, enqueued, index>>
    /\ UNCHANGED <<process, call, batch, extractor>>

\* fetch_page returns None: "if not soup: continue"
FetchNothing ==
    /\ pc = "loop"
    /\ loop_continues
    /\ next_url \notin visited_urls
    /\ \E render_ok, static_ok \in BOOLEAN :
          LET r == fetch_page(next_url, render_ok, static_ok)
          IN  /\ ~r.soup
              /\ visited_urls' = r.visited
              /\ failed_urls' = r.failed
              /\ net' = r.net
    /\ pages_to_process' = rest_of_queue
    /\ dequeued' = Append(dequeued, Entry(next_url))
    /\ UNCHANGED <<config, site, PLAYWRIGHT_AVAILABLE, successful_pages,
                   created_files, disk, base_idx, processed_count, pc,
                   enqueued, index>>
    /\ UNCHANGED <<process, call, batch, extractor>>

\* the page is fetched, extracted, written and its links are enqueued
ProcessPage ==
    /\ pc = "loop"
    /\ loop_continues
    /\ next_url \notin visited_urls
    /\ \E render_ok, static_ok \in BOOLEAN :
          LET r == fetch_page(next_url, render_ok, static_ok)
          IN  /\ r.soup
              /\ visited_urls' = r.visited
              /\ failed_urls' = r.failed
              /\ net' = r.net
              /\ \E nav \in Orderings(find_navigation_links(r.visited, next_url)) :
                    LET page == extract_page_content(next_url, nav)
                        name == Filename(base_url, processed_count, page.title)
                        rest == rest_of_queue
                        queue == add_links(rest, r.visited, links_to_follow(page))
                    IN  /\ successful_pages' = Append(successful_pages, page)
                        /\ disk' = write_file(disk, name, next_url)
                        /\ created_files' = created_files \cup {name}
                        /\ pages_to_process' = queue
                        /\ enqueued' = enqueued \o EntriesOf(Added(rest, queue))
    /\ dequeued' = Append(dequeued, Entry(next_url))
    /\ processed_count' = processed_count + 1
    /\ UNCHANGED <<config, site, PLAYWRIGHT_AVAILABLE, base_idx, pc, index>>
    /\ UNCHANGED <<process, call, batch, extractor>>

\* the while loop ends: on to the next base URL
EndBase ==
    /\ pc = "loop"
    /\ ~loop_continues
    /\ base_idx' = base_idx + 1
    /\ pc' = "base"
    /\ UNCHANGED <<config, site, PLAYWRIGHT_AVAILABLE, visited_urls, failed_urls,
                   successful_pages, created_files, disk, pages_to_process,
                   processed_count, net, enqueued, dequeued, index>>
    /\ UNCHANGED <<process, call, batch, extractor>>

\* create_index_file, and crawl_documentation returns
Finish ==
    /\ pc = "base"
    /\ base_idx > Len(config.base_urls)
    /\ index' = IF config.create_index
                THEN [written |-> TRUE, files |-> created_files,
                      successful |-> Len(successful_pages), failed |-> failed_urls]
                ELSE index
    /\ pc' = "done"
    /\ UNCHANGED <<config, site, PLAYWRIGHT_AVAILABLE, visited_urls, failed_urls,
                   successful_pages, created_files, disk, base_idx,
                   pages_to_process, processed_count, net, enqueued, dequeued>>
    /\ UNCHANGED <<process, call, batch, extractor>>

Next ==
    \/ StartBase
    \/ SkipVisited
    \/ FetchNothing
    \/ ProcessPage
    \/ EndBase
    \/ Finish

Spec == Init /\ [][Next]_vars


----------------------------------------------------------------------------
(* What the logs say *)

\* the requests of a log, without the sleeps
Requests(log) == SelectSeq(log, LAMBDA e : e.kind # "sleep")

\* one event per call of fetch_page that issued a request: its last request
FetchCalls(log) ==
    SelectSeq(log, LAMBDA e : e.kind # "sleep" /\ (e.ok \/ e.kind = "static"))

UrlsOf(log) == [i \in 1..Len(log) |-> log[i].url]

\* the URLs fetched successfully
Fetched(log) == {log[i].url : i \in {j \in 1..Len(log) : log[j].kind # "sleep" /\ log[j].ok}}

OfBase(log, b) == SelectSeq(log, LAMBDA e : e.base = b)

BaseUrls == Range(config.base_urls)

\* the step issued a request and its fetch_page call failed
FetchFailedStep == net' # net /\ ~Last(net').ok

\* the step processed a page
PageStep == successful_pages' # successful_pages


----------------------------------------------------------------------------
(* The filter and the visited set *)

\* C1: for every configuration and every URL u, should_fetch_url(u) is
\* false whenever u is in the visited set, and no step of a crawl issues a
\* request for a URL that is in the visited set when the step starts.
C1_VisitedNeverFetched ==
    /\ [](\A u \in Urls : u \in visited_urls => ~should_fetch_url(visited_urls, u))
    /\ [][\A i \in 1..Len(Requests(Added(net, net'))) :
              Requests(Added(net, net'))[i].url \notin visited_urls]_vars

\* a processed page linked to a visited URL that the rest of the filter
\* accepts, and the link was dropped
C1_Witness ==
    \E i \in 1..Len(successful_pages) :
        \E l \in Range(site[successful_pages[i].url].links) :
            /\ l \in visited_urls
            /\ should_fetch_url({}, l)
            /\ l \notin Range(successful_pages[i].navigation_links)
            /\ Len(Requests(net)) > 1

\* C2: during one crawl no URL is dequeued for fetching twice, as a URL
\* once enqueued or visited is never enqueued again.
C2_NeverFetchedTwice == NoDuplicates(UrlsOf(FetchCalls(net)))

\* C3: once a URL has been fetched successfully, no URL that differs from
\* it only in its fragment or query string is fetched in that crawl.
C3_DedupIsNormalized ==
    \A u, v \in visited_urls : clean_url(u) = clean_url(v) => u = v

----------------------------------------------------------------------------
(* Failures *)

\* C4: a failed fetch appends its URL to failed_urls, writes no document,
\* and leaves the crawl in its loop with the rest of the frontier and the
\* same base URL; a crawl of one base URL whose every fetch fails ends with
\* no created file and exactly one failed URL; a crawl never stops before
\* crawl_documentation returns.
C4_FailureIsolated ==
    /\ [][FetchFailedStep =>
            /\ failed_urls' = Append(failed_urls, next_url)
            /\ Last(net').url = next_url
            /\ disk' = disk /\ created_files' = created_files
            /\ successful_pages' = successful_pages
            /\ pc' = "loop" /\ base_idx' = base_idx
            /\ pages_to_process' = Tail(pages_to_process)]_vars
    /\ []((/\ pc = "done"
           /\ Len(config.base_urls) = 1
           /\ net # <<>>
           /\ \A i \in 1..Len(net) : ~net[i].ok)
          => (created_files = {} /\ disk = {} /\ Len(failed_urls) = 1))
    /\ [](pc = "done" \/ ENABLED Next)

\* a crawl that went on after a failure: it ended with a failed URL and a
\* page fetched and written after the failure
C4_Witness ==
    /\ pc = "done"
    /\ \E i, j \in 1..Len(net) :
          /\ i < j
          /\ net[i].kind = "static" /\ ~net[i].ok
          /\ net[j].kind = "static" /\ net[j].ok
          /\ net[i].url \in Range(failed_urls)
          /\ \E f \in disk : f.url = net[j].url

\* C5: when a rendered fetch fails, the same step issues a static fetch of
\* the same URL; if that succeeds the page is returned and processed, the
\* URL is visited and failed_urls is unchanged, and the URL is recorded as
\* failed only if the static fetch fails as well.
C5_RenderFallback ==
    [][\A i \in 1..Len(Added(net, net')) :
          LET ev == Added(net, net')
          IN  (ev[i].kind = "render" /\ ~ev[i].ok) =>
                /\ i < Len(ev)
                /\ ev[i + 1].kind = "static" /\ ev[i + 1].url = ev[i].url
                /\ ev[i + 1].ok =>
                      /\ ev[i].url \in visited_urls'
                      /\ failed_urls' = failed_urls
                      /\ PageStep /\ Last(successful_pages').url = ev[i].url
                /\ ~ev[i + 1].ok => failed_urls' = Append(failed_urls, ev[i].url)]_vars

\* a rendering failed and the static fetch of the URL succeeded
C5_Witness ==
    \E i \in 1..(Len(net) - 1) :
        /\ net[i].kind = "render" /\ ~net[i].ok
        /\ net[i + 1].kind = "static" /\ net[i + 1].ok
        /\ net[i].url \in visited_urls
        /\ net[i].url \notin Range(failed_urls)


----------------------------------------------------------------------------
(* The budgets and the order of the crawl *)

C7_DepthGate ==
    /\ [][IF dequeued' # dequeued
          THEN LET new == Added(Tail(pages_to_process), pages_to_process')
               IN  /\ ~PageStep => new = <<>>
                   /\ PageStep =>
                        /\ processed_count >= config.max_depth => new = <<>>
                        /\ Range(new) \subseteq
                              Range(Take(Last(successful_pages').navigation_links, LinksPerPage))
                   /\ enqueued' = enqueued \o EntriesOf(new)
          ELSE \/ enqueued' = enqueued
               \/ pc = "base" /\ enqueued' = Append(enqueued, Entry(base_url))]_vars
    /\ [](config.max_depth = 0 => Range(UrlsOf(Requests(net))) \subseteq BaseUrls)
    /\ [](\A b \in 1..Len(config.base_urls) :
              Len(OfBase(enqueued, b)) <= 1 + LinksPerPage * config.max_depth)

\* a page with more than 5 navigation links was processed below max_depth,
\* and 5 links were enqueued after the base URL
C7_Witness ==
    /\ \E i \in 1..Len(successful_pages) :
          Len(successful_pages[i].navigation_links) > LinksPerPage
    /\ Len(OfBase(enqueued, 1)) = 1 + LinksPerPage * config.max_depth
    /\ config.max_depth > 0

\* C8: within one base URL the URLs are dequeued in the order in which they
\* were enqueued, the base URL first, and the frontier holds the enqueued
\* URLs not dequeued yet, in that order.
C8_Fifo ==
    \A b \in 1..Len(config.base_urls) :
        /\ IsPrefix(OfBase(dequeued, b), OfBase(enqueued, b))
        /\ OfBase(enqueued, b) # <<>> => OfBase(enqueued, b)[1].url = config.base_urls[b]
        /\ (b = base_idx /\ pc = "loop") =>
              OfBase(enqueued, b) = OfBase(dequeued, b) \o EntriesOf(pages_to_process)

\* links of two pages were dequeued: those of the page processed first
\* before the one of the page processed second
C8_Witness ==
    /\ Len(successful_pages) >= 2
    /\ Len(OfBase(dequeued, 1)) >= 4
    /\ OfBase(dequeued, 1)[2].url \in Range(successful_pages[1].navigation_links)
    /\ OfBase(dequeued, 1)[4].url \in Range(successful_pages[2].navigation_links)
    /\ OfBase(dequeued, 1)[4].url \notin Range(successful_pages[1].navigation_links)

\* C9: after every call of fetch_page that issued a request, whether it
\* succeeded or failed, the fetcher has slept before control is back in
\* the crawl loop.
C9_SleepAfterEveryAttempt == net # <<>> => Last(net).kind = "sleep"

\* C10: the visited set is exactly the set of URLs whose fetch succeeded,
\* each as it was fetched, and every URL of successful_pages is in it.
C10_VisitedIsFetched ==
    /\ visited_urls = Fetched(net)
    /\ \A i \in 1..Len(successful_pages) : successful_pages[i].url \in visited_urls

\* a URL with a fragment was fetched and is visited as such, a fetch
\* failed, and a URL was rejected by the filter
C10_Witness ==
    /\ \E u \in visited_urls : clean_url(u) # u
    /\ \E i \in 1..Len(net) : ~net[i].ok /\ net[i].url \notin visited_urls
    /\ Len(dequeued) > Len(FetchCalls(net))

(***************************************************************************)
(* main(): the process around crawl_documentation, and the doc-fetcher     *)
(* wrapper that runs a script as a child process.                          *)
(***************************************************************************)

\* the three counts main prints after "Documentation fetch complete!"
Summary == [line |-> "Documentation fetch complete!",
            files |-> Cardinality(created_files),
            successful |-> Len(successful_pages),
            failed |-> Len(failed_urls)]

Interrupted == [line |-> "Process interrupted by user"]

\* doc-fetcher.py: subprocess.run(args, check=True); a child that returned
\* non-zero ends the wrapper with the child's code, Ctrl-C received by the
\* wrapper itself ends it with 130, otherwise the wrapper falls off the end
wrapper_exit(returncode, wrapper_interrupted) ==
    IF wrapper_interrupted THEN 130 ELSE returncode

\* main() returns normally in every branch of its try statement, and the
\* script has no sys.exit: the interpreter ends with status 0
main_exit_status == 0

Exited(lines, wrapper_interrupted) ==
    [running |-> FALSE, stdout |-> lines, exit_status |-> main_exit_status,
     wrapper_status |-> wrapper_exit(main_exit_status, wrapper_interrupted)]

\* KeyboardInterrupt raised inside crawl_documentation: it is no Exception,
\* so it leaves fetch_page and the crawl loop and reaches main's handler,
\* which prints one line; create_index_file is not reached. The signal
\* reaches only the crawler, or the wrapper as well.
Interrupt ==
    /\ pc \in {"base", "loop"}
    /\ \E wrapper_interrupted \in BOOLEAN :
          process' = Exited(<<Interrupted>>, wrapper_interrupted)
    /\ pc' = "interrupted"
    /\ UNCHANGED <<config, site, PLAYWRIGHT_AVAILABLE, visited_urls, failed_urls,
                   successful_pages, created_files, disk, base_idx,
                   pages_to_process, processed_count, net, enqueued, dequeued,
                   index, call, batch, extractor>>

\* crawl_documentation returned: main prints the summary and returns
MainReturns ==
    /\ pc = "done"
    /\ process' = Exited(<<Summary>>, FALSE)
    /\ pc' = "exited"
    /\ UNCHANGED <<config, site, PLAYWRIGHT_AVAILABLE, visited_urls, failed_urls,
                   successful_pages, created_files, disk, base_idx,
                   pages_to_process, processed_count, net, enqueued, dequeued,
                   index, call, batch, extractor>>

\* configurations main can build from the command line or a config file;
\* FetcherConfig validates nothing, so a negative depth and (from a config
\* file) an empty list of base URLs are among them
MinDepth == -1

MainConfigs ==
    {FetcherConfig(b, d, <<>>, <<>>, FALSE, p) :
        b \in {<<>>, <<A>>, <<A, B>>, <<A, W>>}, d \in MinDepth..MaxDepth,
        p \in BOOLEAN}

MainScenarios == {SiteDocs, SiteAnchors} \X MainConfigs \X {TRUE}

InitMain == InitWith(MainScenarios)

NextMain ==
    \/ Next
    \/ Interrupt
    \/ MainReturns

SpecMain == InitMain /\ [][NextMain]_vars

InvalidConfig == config.base_urls = <<>> \/ config.max_depth < 0

\* the interrupt arrived while crawl_documentation was running on a valid
\* configuration
WasInterrupted == pc = "interrupted" /\ ~InvalidConfig

\* ... and after at least one page had been written
InterruptedMidCrawl == WasInterrupted /\ successful_pages # <<>>

\* C11: when an interrupt arrives during a crawl, no further fetch is issued,
\* the index README.md is still written for the pages and failures gathered
\* so far, the final summary with the counts is still printed, and the
\* documents already written remain on disk.
C11_InterruptFinalizes ==
    InterruptedMidCrawl
        => /\ ~ENABLED Next
           /\ index.written
           /\ index.files = created_files
           /\ Summary \in Range(process.stdout)
           /\ \A name \in created_files : \E f \in disk : f.name = name

\* C12: an interrupted run ends with a non-zero exit status, different from
\* the status of a normal completion, in the crawler process and in the
\* wrapper that runs it as a child.
C12_InterruptExitStatus ==
    /\ WasInterrupted
          => (process.exit_status # 0 /\ process.wrapper_status # 0)
    /\ pc = "exited" => process.exit_status = 0

\* C13: a configuration with no base URL or with a negative max depth is
\* rejected before any network activity: no request is issued and no file,
\* document or index, is written.
C13_InvalidConfigRejected ==
    InvalidConfig => (net = <<>> /\ disk = {} /\ ~index.written)

----------------------------------------------------------------------------
(* Crawls of a site of two pages *)

\* page A links once to page B, which has no navigation links
SiteTwo ==
    [u \in Urls |->
        CASE u = A -> Page(<<B>>, TitleDocs)
          [] u = B -> Page(<<>>, TitleDocs)
          [] OTHER -> NoPage]

\* page A links once to page B, which links back
SiteTwoBack ==
    [u \in Urls |->
        CASE u = A -> Page(<<B>>, TitleDocs)
          [] u = B -> Page(<<A>>, TitleApi)
          [] OTHER -> NoPage]

TwoPageSites == {SiteTwo, SiteTwoBack}

\* a document with no element at all: no title, no content, no link
EmptyPage == Page(<<>>, <<>>)

\* page A links to B, whose document is empty
SiteEmpty ==
    [u \in Urls |->
        CASE u = A -> Page(<<B>>, TitleDocs)
          [] u = B -> EmptyPage
          [] OTHER -> NoPage]

InitTwo == InitWith((TwoPageSites \cup {SiteEmpty}) \X SmallConfigs \X BOOLEAN)

SpecTwo == InitTwo /\ [][Next]_vars

AllFetchesSucceeded == \A i \in 1..Len(FetchCalls(net)) : FetchCalls(net)[i].ok

\* the crawl of the two-page site from A with the default depth is over
TwoPageRunDone ==
    /\ site \in TwoPageSites
    /\ config.base_urls = <<A>>
    /\ config.max_depth = 2
    /\ config.include_patterns = <<>>
    /\ config.exclude_patterns = <<>>
    /\ pc = "done"

\* C14: on a site of two pages where the base URL A has one navigation
\* link, to B on the same host, a crawl with max_depth 2 whose fetches all
\* succeed ends with exactly two markdown files, the first written for A
\* and the second for B, an index listing both and an empty failed_urls.
C14_TwoPageCrawl ==
    (TwoPageRunDone /\ AllFetchesSucceeded)
        => /\ [i \in 1..Len(successful_pages) |-> successful_pages[i].url] = <<A, B>>
           /\ disk = {[name |-> Filename(A, 0, extract_title(site[A].title)), url |-> A],
                      [name |-> Filename(A, 1, extract_title(site[B].title)), url |-> B]}
           /\ Cardinality(disk) = 2
           /\ created_files = {f.name : f \in disk}
           /\ index.written
           /\ index.files = created_files
           /\ index.failed = <<>>
           /\ failed_urls = <<>>

\* such a crawl has ended with two fetches and two files
C14_Witness ==
    /\ TwoPageRunDone
    /\ AllFetchesSucceeded
    /\ site = SiteTwo
    /\ Len(FetchCalls(net)) = 2
    /\ Cardinality(disk) = 2

----------------------------------------------------------------------------
(* Output files *)

\* C15: at the end of a crawl the number of distinct markdown files equals
\* the number of successfully processed pages: no two successful pages, of
\* the same base URL or of different base URLs of the run, are written to
\* the same filename.
C15_OneFilePerPage ==
    pc = "done"
        => /\ Cardinality(disk) = Len(successful_pages)
           /\ Cardinality(created_files) = Len(successful_pages)

\* C16: a dequeued URL whose fetched document is empty cannot be turned
\* into a page record and is treated as failed: it is in failed_urls, not in
\* successful_pages, and no file is written for it.
C16_EmptyDocumentFails ==
    \A u \in Fetched(net) :
        site[u] = EmptyPage
            => /\ u \in Range(failed_urls)
               /\ \A i \in 1..Len(successful_pages) : successful_pages[i].url # u
               /\ \A f \in disk : f.url # u

----------------------------------------------------------------------------
(* should_fetch_url as a function of the configuration, the visited set    *)
(* and the URL                                                             *)

FilterPatterns == {<<>>, <<<<"/B">>>>, <<<<"/x">>>>, <<<<"/a">>, <<"/x">>>>}

FilterConfigs ==
    {FetcherConfig(b, MaxDepth, i, e, x, FALSE) :
        b \in {<<A>>, <<A, X>>}, i \in FilterPatterns, e \in FilterPatterns,
        x \in BOOLEAN}

\* a fetcher with any of the configurations, part of the way into a crawl
InitFilter ==
    /\ site = SiteDocs
    /\ config \in FilterConfigs
    /\ PLAYWRIGHT_AVAILABLE = FALSE
    /\ visited_urls \in SUBSET {A, B, X}
    /\ failed_urls = <<>>
    /\ successful_pages = <<>>
    /\ created_files = {}
    /\ disk = {}
    /\ base_idx = 1
    /\ pages_to_process = <<>>
    /\ processed_count = 0
    /\ pc = "call"
    /\ net = <<>>
    /\ enqueued = <<>>
    /\ dequeued = <<>>
    /\ index = NoIndex
    /\ process = Running
    /\ call = NoCall
    /\ batch = NoBatch
    /\ extractor = NoExtractor

\* a call self.should_fetch_url(url)
CallShouldFetchUrl ==
    /\ pc = "call"
    /\ call = NoCall
    /\ \E url \in {A, Afrag, B, C, W, X} :
          call' = [fn |-> "should_fetch_url", url |-> url,
                   result |-> should_fetch_url(visited_urls, url)]
    /\ UNCHANGED <<config, site, PLAYWRIGHT_AVAILABLE, visited_urls, failed_urls,
                   successful_pages, created_files, disk, base_idx,
                   pages_to_process, processed_count, pc, net, enqueued,
                   dequeued, index, process, batch, extractor>>

SpecFilter == InitFilter /\ [][CallShouldFetchUrl]_vars

HostAllowed(url) ==
    \/ config.follow_external_links
    \/ \E i \in 1..Len(config.base_urls) : netloc(url) = netloc(config.base_urls[i])

IncludeMatches(url) ==
    \E i \in 1..Len(config.include_patterns) : re_search(config.include_patterns[i], url)

ExcludeMatches(url) ==
    \E i \in 1..Len(config.exclude_patterns) : re_search(config.exclude_patterns[i], url)

\* C17: should_fetch_url(u) is true exactly when u is not visited, external
\* links are followed or u's host is the host of a base URL, no include
\* pattern is configured or one matches u, and no exclude pattern matches
\* u; an off-host URL is rejected even if it matches an include pattern, and
\* a URL matching both an include and an exclude pattern is rejected.
C17_FilterDecision ==
    call.fn = "should_fetch_url"
        => /\ call.result
                = (/\ call.url \notin visited_urls
                   /\ HostAllowed(call.url)
                   /\ (config.include_patterns = <<>> \/ IncludeMatches(call.url))
                   /\ ~ExcludeMatches(call.url))
           /\ (~HostAllowed(call.url) /\ IncludeMatches(call.url)) => ~call.result
           /\ (IncludeMatches(call.url) /\ ExcludeMatches(call.url)) => ~call.result

\* an unvisited off-host URL that matches an include pattern and no exclude
\* pattern was rejected
C17_Witness ==
    /\ call.fn = "should_fetch_url"
    /\ call.url \notin visited_urls
    /\ ~HostAllowed(call.url)
    /\ IncludeMatches(call.url)
    /\ ~ExcludeMatches(call.url)
    /\ ~call.result

----------------------------------------------------------------------------
(* extract_api_endpoints.  The text matches of the endpoint patterns and   *)
(* the rows of the endpoint tables are the inputs; the regular expressions *)
(* that find them are not modelled.                                        *)

Verbs == {"GET", "POST", "PUT", "DELETE", "PATCH"}

\* str.upper() on the method words of the model
Upper(word) ==
    CASE word = "get" -> "GET"
      [] word = "post" -> "POST"
      [] OTHER -> word

\* a match of the first pattern is a tuple (method, path); the other
\* patterns have one group, and re.findall gives the matched string
PairMatch(method, path) == <<method, path>>
SingleMatch(path) == <<path>>

\* the dict appended for a match of a pattern
pattern_endpoint(match) ==
    IF Len(match) >= 2
    THEN [type |-> "endpoint",
          method |-> IF Upper(match[1]) \in Verbs THEN Upper(match[1]) ELSE "GET",
          path |-> match[2]]
    ELSE [type |-> "endpoint", method |-> "GET", path |-> match[1]]

\* the dict appended for a table row with at least two cells
table_endpoint(cells) == [type |-> "table_endpoint", data |-> cells]

\* dict.get(field, default)
get(dict, field, default) ==
    IF field \in DOMAIN dict THEN dict[field] ELSE default

\* f"{endpoint.get('method', 'GET')}:{endpoint.get('path', '')}"
key(endpoint) == <<get(endpoint, "method", "GET"), ":", get(endpoint, "path", "")>>

\* the loop under "# Remove duplicates"
RECURSIVE unique_endpoints(_, _)
unique_endpoints(endpoints, seen) ==
    IF endpoints = <<>> THEN <<>>
    ELSE IF key(Head(endpoints)) \in seen
         THEN unique_endpoints(Tail(endpoints), seen)
         ELSE <<Head(endpoints)>>
                  \o unique_endpoints(Tail(endpoints), seen \cup {key(Head(endpoints))})

\* the candidates in the order the function appends them
raw_endpoints(matches, rows) ==
    LET kept == SelectSeq(rows, LAMBDA cells : Len(cells) >= 2)
    IN  [i \in 1..Len(matches) |-> pattern_endpoint(matches[i])]
            \o [i \in 1..Len(kept) |-> table_endpoint(kept[i])]

\* APIDocsFetcher.extract_api_endpoints; enabled is
\* config.extract_api_endpoints
extract_api_endpoints(enabled, matches, rows) ==
    IF ~enabled THEN <<>> ELSE unique_endpoints(raw_endpoints(matches, rows), {})

MaxMatches == 3
MaxRows == 2

SeqsUpTo(S, n) == UNION {[1..k -> S] : k \in 0..n}

Matches ==
    {PairMatch("GET", "/users"), PairMatch("get", "/users"),
     PairMatch("POST", "/users"), SingleMatch("/api/users")}

Rows == {<<"GET", "/users">>, <<"POST", "/orders">>, <<"Notes">>}

\* a fetcher after construction, about to be handed documents
InitContent ==
    InitWith({<<SiteDocs, FetcherConfig(<<A>>, MaxDepth, <<>>, <<>>, FALSE, FALSE), FALSE>>})

\* a call self.extract_api_endpoints(content)
CallExtractApiEndpoints ==
    /\ call = NoCall
    /\ \E enabled \in BOOLEAN, matches \in SeqsUpTo(Matches, MaxMatches),
          rows \in SeqsUpTo(Rows, MaxRows) :
          call' = [fn |-> "extract_api_endpoints", enabled |-> enabled,
                   raw |-> raw_endpoints(matches, rows),
                   result |-> extract_api_endpoints(enabled, matches, rows)]
    /\ UNCHANGED <<config, site, PLAYWRIGHT_AVAILABLE, visited_urls, failed_urls,
                   successful_pages, created_files, disk, base_idx,
                   pages_to_process, processed_count, pc, net, enqueued,
                   dequeued, index, process, batch, extractor>>

SpecEndpoints == InitContent /\ [][CallExtractApiEndpoints]_vars

\* the dedup key of a candidate: method and path, and for a table row its
\* cells joined
DedupKey(endpoint) ==
    IF endpoint.type = "table_endpoint" THEN <<"table", endpoint.data>>
    ELSE <<endpoint.method, endpoint.path>>

\* the first occurrences of the keys of s, in order
FirstOccurrences(s) ==
    SelectSeq([i \in 1..Len(s) |-> [i |-> i, e |-> s[i]]],
              LAMBDA x : \A j \in 1..(x.i - 1) : DedupKey(s[j]) # DedupKey(x.e))

\* C18: endpoint extraction returns exactly one endpoint per distinct
\* (method, path) key among the raw candidates, the first occurrence of
\* each: n candidates with k distinct keys yield k endpoints; a table row is
\* keyed by its joined cells, so two rows with different cells both survive.
C18_EndpointDedup ==
    (call.fn = "extract_api_endpoints" /\ call.enabled)
        => /\ Len(call.result) = Cardinality({DedupKey(call.raw[i]) : i \in 1..Len(call.raw)})
           /\ call.result = [i \in 1..Len(FirstOccurrences(call.raw)) |->
                                 FirstOccurrences(call.raw)[i].e]

----------------------------------------------------------------------------
(* extract_sections.  A document is the list content.find_all([...])       *)
(* returns: the heading, p, div, pre, table, ul and ol elements in         *)
(* document order, an element nested in another one after it.  The text of *)
(* an element is a sequence of one-character tokens.                       *)

\* "if text and len(text) > 10"
MinContentLength == 10

Chars(n) == [i \in 1..n |-> "x"]

Node(name, text) == [name |-> name, text |-> text]

\* element.name.startswith('h'), among the names of the find_all list
is_heading(node) == node.name \in {"h1", "h2", "h3", "h4", "h5", "h6"}

\* int(element.name[1])
level(node) ==
    CASE node.name = "h1" -> 1 [] node.name = "h2" -> 2 [] node.name = "h3" -> 3
      [] node.name = "h4" -> 4 [] node.name = "h5" -> 5 [] OTHER -> 6

new_section(node) == [level |-> level(node), title |-> Strip(node.text), content |-> <<>>]

\* "if current_section and current_section.get('content')": current is <<>>
\* for None and <<section>> otherwise
flush(sections, current) ==
    IF current # <<>> /\ current[1].content # <<>>
    THEN Append(sections, current[1]) ELSE sections

\* "if text and len(text) > 10", text being stripped
keeps_text(text) == Len(text) > MinContentLength

\* the body of the for loop, then the flush after it
RECURSIVE scan_sections(_, _, _)
scan_sections(nodes, sections, current) ==
    IF nodes = <<>> THEN flush(sections, current)
    ELSE LET element == Head(nodes)
             text == Strip(element.text)
         IN  IF is_heading(element)
             THEN scan_sections(Tail(nodes), flush(sections, current),
                                <<new_section(element)>>)
             ELSE IF current # <<>> /\ keeps_text(text)
             THEN scan_sections(Tail(nodes), sections,
                                <<[current[1] EXCEPT !.content = Append(@, text)]>>)
             ELSE scan_sections(Tail(nodes), sections, current)

\* APIDocsFetcher.extract_sections
extract_sections(nodes) == scan_sections(nodes, <<>>, <<>>)

MaxNodes == 4

Padded(text) == <<" ">> \o text \o <<" ">>

Texts == {Chars(MinContentLength), Chars(MinContentLength + 1), Padded(Chars(MinContentLength))}

Nodes ==
    {Node(name, <<"T">>) : name \in {"h1", "h2"}}
        \cup {Node(name, text) : name \in {"p", "div", "table"}, text \in Texts}

\* a call self.extract_sections(main_content)
CallExtractSections ==
    /\ call = NoCall
    /\ \E nodes \in SeqsUpTo(Nodes, MaxNodes) :
          call' = [fn |-> "extract_sections", nodes |-> nodes,
                   result |-> extract_sections(nodes)]
    /\ UNCHANGED <<config, site, PLAYWRIGHT_AVAILABLE, visited_urls, failed_urls,
                   successful_pages, created_files, disk, base_idx,
                   pages_to_process, processed_count, pc, net, enqueued,
                   dequeued, index, process, batch, extractor>>

SpecSections == InitContent /\ [][CallExtractSections]_vars

\* the positions of the headings of a document
Headings(nodes) == {i \in 1..Len(nodes) : is_heading(nodes[i])}

\* the positions after the heading at i and before the next heading
BlockOf(nodes, i) ==
    {j \in (i + 1)..Len(nodes) : \A k \in (i + 1)..j : ~is_heading(nodes[k])}

\* a paragraph, list, table or code node with more than 10 characters
IsContentBlock(node) ==
    /\ node.name \in {"p", "ul", "ol", "table", "pre"}
    /\ Len(Strip(node.text)) > MinContentLength

ContentBlocks(nodes, i) == {j \in BlockOf(nodes, i) : IsContentBlock(nodes[j])}

Ascending(S) ==
    CHOOSE s \in [1..Cardinality(S) -> S] :
        \A a, b \in 1..Cardinality(S) : a < b => s[a] < s[b]

\* the headings that open a section, in document order
SectionHeadings(nodes) ==
    Ascending({i \in Headings(nodes) : ContentBlocks(nodes, i) # {}})

\* C19: extract_sections returns exactly one section per heading that is
\* followed, before the next heading, by at least one paragraph, list, table
\* or code node with more than 10 characters of text, in document order,
\* with one content block per such node; so two adjacent headings give no
\* section for the first, content before the first heading is discarded and
\* a trailing open section is flushed.
C19_SectionsPerHeading ==
    call.fn = "extract_sections"
        => /\ Len(call.result) = Len(SectionHeadings(call.nodes))
           /\ \A k \in 1..Len(call.result) :
                 LET i == SectionHeadings(call.nodes)[k]
                     blocks == Ascending(ContentBlocks(call.nodes, i))
                 IN  /\ k <= Len(SectionHeadings(call.nodes))
                     /\ call.result[k].level = level(call.nodes[i])
                     /\ call.result[k].content =
                            [b \in 1..Len(blocks) |-> Strip(call.nodes[blocks[b]].text)]

----------------------------------------------------------------------------
(* convert_to_markdown: the "Code Examples" part of the document.  A code  *)
(* text is a sequence of characters, here the names of their positions, so *)
(* that a slice can be told from any other text of the same length.        *)

\* "if len(code) > 1000: code = code[:1000] + ..."
CodeLimit == 1000

\* "content['code_examples'][:5]"
ExamplesLimit == 5

\* "\n... (truncated)", as one token
TruncationMarker == "\n... (truncated)"

Code(n) == [i \in 1..n |-> ToString(i)]

Example(lang, code) == [language |-> lang, code |-> code, length |-> Len(code)]

\* truncation that also cuts a text of exactly the limit
truncate_from_limit(code) ==
    IF Len(code) >= CodeLimit
    THEN Take(code, CodeLimit - 1) \o <<TruncationMarker>>
    ELSE code

\* lines 447-448
truncate(code) ==
    IF Len(code) > CodeLimit
    THEN Take(code, CodeLimit) \o <<TruncationMarker>>
    ELSE code

\* the lines appended for example i (counted from 0) of the first five
example_lines(i, example) ==
    [number |-> i + 1, lang |-> get(example, "language", "text"),
     code |-> truncate(example.code)]

\* convert_to_markdown, of which only the code examples are modelled: the
\* lines of the examples it renders, in order
convert_to_markdown(content) ==
    LET examples == Take(content.code_examples, ExamplesLimit)
    IN  [code_examples |-> [i \in 1..Len(examples) |-> example_lines(i - 1, examples[i])]]

MaxExamples == 6

\* a text of exactly the limit and one half as long again
ExampleLengths == {CodeLimit, CodeLimit + CodeLimit \div 2}

ExampleLists ==
    {[i \in 1..Len(lens) |-> Example("text", Code(lens[i]))] :
        lens \in SeqsUpTo(ExampleLengths, MaxExamples)
                     \cup {<<0>>, <<CodeLimit - 1>>, <<CodeLimit + 1>>}}

\* a call self.convert_to_markdown(content, url)
CallConvertToMarkdown ==
    /\ call = NoCall
    /\ \E examples \in ExampleLists :
          call' = [fn |-> "convert_to_markdown", code_examples |-> examples,
                   result |-> convert_to_markdown([code_examples |-> examples])]
    /\ UNCHANGED <<config, site, PLAYWRIGHT_AVAILABLE, visited_urls, failed_urls,
                   successful_pages, created_files, disk, base_idx,
                   pages_to_process, processed_count, pc, net, enqueued,
                   dequeued, index, process, batch, extractor>>

SpecRender == InitContent /\ [][CallConvertToMarkdown]_vars

\* C20: the renderer emits a code example longer than 1000 characters as
\* exactly its first 1000 characters followed by the truncation marker, and
\* an example of at most 1000 characters unchanged; at most the first 5
\* examples are rendered.
C20_ExampleTruncation ==
    call.fn = "convert_to_markdown"
        => /\ Len(call.result.code_examples) = Min(Len(call.code_examples), ExamplesLimit)
           /\ \A i \in 1..Len(call.result.code_examples) :
                 LET code == call.code_examples[i].code
                     out == call.result.code_examples[i].code
                 IN  IF Len(code) > CodeLimit
                     THEN /\ Len(out) = CodeLimit + 1
                          /\ \A j \in 1..CodeLimit : out[j] = code[j]
                          /\ out[CodeLimit + 1] = TruncationMarker
                     ELSE out = code

\* six examples were given, among them one of 1500 characters that was
\* rendered truncated and one of exactly 1000 characters rendered whole
C20_Witness ==
    /\ call.fn = "convert_to_markdown"
    /\ Len(call.code_examples) > ExamplesLimit
    /\ Len(call.result.code_examples) = ExamplesLimit
    /\ \E i \in 1..ExamplesLimit :
          /\ Len(call.code_examples[i].code) = CodeLimit + CodeLimit \div 2
          /\ Len(call.result.code_examples[i].code) = CodeLimit + 1
    /\ \E i \in 1..ExamplesLimit :
          /\ Len(call.code_examples[i].code) = CodeLimit
          /\ call.result.code_examples[i].code = call.code_examples[i].code

----------------------------------------------------------------------------
(* create_index_file.  The document is the list of its parts; the label of *)
(* a file entry is computed from the filename alone and is left out.  The  *)
(* filenames of the inputs have one site label and different sequence      *)
(* numbers, so that sorted() orders them by sequence number.               *)

MaxClock == 2

\* the seconds time.strftime can read from the clock
Clock == 1..MaxClock

\* sorted(created_files.keys())
sorted(names) ==
    CHOOSE s \in [1..Cardinality(names) -> names] :
        \A a, b \in 1..Cardinality(names) : a < b => s[a].seq < s[b].seq

\* the lines under "### Failed URLs:", present "if self.failed_urls"
failed_section(failed) == IF failed # <<>> THEN <<failed>> ELSE <<>>

\* APIDocsFetcher.create_index_file: the content written to README.md when
\* the clock reads now
create_index_file(urls, files, successful, failed, now) ==
    [generated_on |-> now,
     source_urls |-> urls,
     documentation_files |-> sorted(files),
     total_files |-> Cardinality(files),
     successfully_processed |-> Len(successful),
     failed_urls |-> Len(failed),
     failed_section |-> failed_section(failed)]

IndexFiles == {Filename(A, 0, TitleDocs), Filename(A, 1, TitleApi), Filename(A, 2, TitleGuide)}

IndexInputs ==
    [urls : {<<A>>, <<A, W>>}, files : SUBSET IndexFiles,
     successful : {<<>>, <<A>>, <<A, B>>}, failed : {<<>>, <<C>>, <<C, B>>}]

\* a call self.create_index_file(output_path, created_files)
CallCreateIndexFile ==
    /\ call = NoCall
    /\ \E in \in IndexInputs, now \in Clock :
          call' = [fn |-> "create_index_file", input |-> in, now |-> now, calls |-> 1,
                   result |-> create_index_file(in.urls, in.files, in.successful,
                                                in.failed, now),
                   again |-> <<>>]
    /\ UNCHANGED <<config, site, PLAYWRIGHT_AVAILABLE, visited_urls, failed_urls,
                   successful_pages, created_files, disk, base_idx,
                   pages_to_process, processed_count, pc, net, enqueued,
                   dequeued, index, process, batch, extractor>>

\* a second call with the same arguments and the same fetcher state, at the
\* same or a later second
CallCreateIndexFileAgain ==
    /\ call.fn = "create_index_file"
    /\ call.calls = 1
    /\ \E now \in {t \in Clock : t >= call.now} :
          call' = [call EXCEPT
                      !.calls = 2,
                      !.again = <<create_index_file(call.input.urls, call.input.files,
                                                    call.input.successful,
                                                    call.input.failed, now)>>]
    /\ UNCHANGED <<config, site, PLAYWRIGHT_AVAILABLE, visited_urls, failed_urls,
                   successful_pages, created_files, disk, base_idx,
                   pages_to_process, processed_count, pc, net, enqueued,
                   dequeued, index, process, batch, extractor>>

NextIndex ==
    \/ CallCreateIndexFile
    \/ CallCreateIndexFileAgain

SpecIndex == InitContent /\ [][NextIndex]_vars

\* C21: create_index_file is a pure function of the base URLs, the created
\* files and the successful and failed lists: two invocations with the same
\* inputs produce the identical document, which lists the files sorted by
\* filename and enumerates the failed URLs exactly when there is a failure.
C21_IndexIsPure ==
    (call.fn = "create_index_file" /\ call.calls = 2)
        => /\ call.again[1] = call.result
           /\ \A a, b \in 1..Len(call.result.documentation_files) :
                 a < b => call.result.documentation_files[a].seq
                              < call.result.documentation_files[b].seq
           /\ (call.result.failed_section # <<>>) = (call.input.failed # <<>>)

----------------------------------------------------------------------------
(* The URL clean-up of the link extractor as a function of the href *)

MaxUrlLen == 4

UrlTokens == {"h1", "/a", "#", "?", "v2"}

\* clean_url = href.split('#')[0].split('?')[0], applied once and then to
\* its own result
CallCleanUrl ==
    /\ call = NoCall
    /\ \E href \in SeqsUpTo(UrlTokens, MaxUrlLen) :
          call' = [fn |-> "clean_url", href |-> href,
                   result |-> clean_url(href),
                   twice |-> clean_url(clean_url(href))]
    /\ UNCHANGED <<config, site, PLAYWRIGHT_AVAILABLE, visited_urls, failed_urls,
                   successful_pages, created_files, disk, base_idx,
                   pages_to_process, processed_count, pc, net, enqueued,
                   dequeued, index, process, batch, extractor>>

SpecCleanUrl == InitContent /\ [][CallCleanUrl]_vars

\* C22: the URL normalization for dedup, which drops the fragment and then
\* the query string, is idempotent: normalizing a normalized URL changes
\* nothing.
C22_CleanUrlIdempotent ==
    call.fn = "clean_url"
        => /\ call.twice = call.result
           /\ "#" \notin Range(call.result)
           /\ "?" \notin Range(call.result)

\* a URL with two fragments and a query string between them was cleaned
C22_Witness ==
    /\ call.fn = "clean_url"
    /\ call.href = <<"h1", "#", "?", "#">>
    /\ call.result = <<"h1">>

----------------------------------------------------------------------------
(* Termination of the crawl *)

\* sites with cycles of links, and the chain longer than the page limit
LiveScenarios ==
    ({SiteDocs, SiteTwoBack} \X SmallConfigs \X BOOLEAN)
        \cup ({SiteChain} \X ChainConfigs \X {FALSE})

InitLive == InitWith(LiveScenarios)

\* every request has a timeout, so every call of fetch_page returns and the
\* interpreter goes on to the next statement: a step that can be taken is
\* eventually taken
SpecLive == InitLive /\ [][Next]_vars /\ WF_vars(Next)

\* C23: given that every fetch returns, with a page or with a failure, the
\* crawl loop of every base URL reaches a state where the frontier is empty
\* or the page budget is used up, also on sites with cycles of links and
\* when fetches fail, and crawl_documentation returns after the last base
\* URL.
C23_CrawlTerminates ==
    /\ [](pc = "loop" => <>(pc = "loop" /\ ~loop_continues))
    /\ <>(pc = "done")

\* a crawl of the site with cycles returned after a failed fetch and after
\* a visited URL had come back to the head of the frontier
C23_Witness ==
    /\ pc = "done"
    /\ site = SiteDocs
    /\ failed_urls # <<>>
    /\ Len(successful_pages) >= 2
    /\ \E i \in 1..Len(dequeued) : \E j \in 1..(i - 1) : dequeued[j] = dequeued[i]

----------------------------------------------------------------------------
(* find_navigation_links in two runs of the program on the same page.  The *)
(* function returns list(set(links)): the order in which a set of strings  *)
(* iterates depends on the hash seed, which the interpreter draws anew for *)
(* every process.                                                          *)

RunScenarios == {SiteDocs} \X SmallConfigs \X {FALSE}

InitRuns == InitWith(RunScenarios)

\* the first run calls self.find_navigation_links(soup, url) on a page
FindNavigationLinksRun1 ==
    /\ call = NoCall
    /\ \E url \in {A, B, C, W} :
          \E nav \in Orderings(find_navigation_links(visited_urls, url)) :
              call' = [fn |-> "find_navigation_links", url |-> url,
                       run1 |-> nav, run2 |-> <<>>, runs |-> 1]
    /\ UNCHANGED <<config, site, PLAYWRIGHT_AVAILABLE, visited_urls, failed_urls,
                   successful_pages, created_files, disk, base_idx,
                   pages_to_process, processed_count, pc, net, enqueued,
                   dequeued, index, process, batch, extractor>>

\* a second run of the program calls it on the same page, with the same
\* configuration and the same visited set
FindNavigationLinksRun2 ==
    /\ call.fn = "find_navigation_links"
    /\ call.runs = 1
    /\ \E nav \in Orderings(find_navigation_links(visited_urls, call.url)) :
          call' = [call EXCEPT !.run2 = nav, !.runs = 2]
    /\ UNCHANGED <<config, site, PLAYWRIGHT_AVAILABLE, visited_urls, failed_urls,
                   successful_pages, created_files, disk, base_idx,
                   pages_to_process, processed_count, pc, net, enqueued,
                   dequeued, index, process, batch, extractor>>

NextRuns ==
    \/ FindNavigationLinksRun1
    \/ FindNavigationLinksRun2

SpecRuns == InitRuns /\ [][NextRuns]_vars

\* C24: a crawl is reproducible: with the same configuration and the same
\* site content two runs fetch the same URLs in the same order; in
\* particular which 5 navigation links of a page are enqueued, and in which
\* order, is determined by the page alone.
C24_Reproducible ==
    (call.fn = "find_navigation_links" /\ call.runs = 2)
        => Take(call.run1, LinksPerPage) = Take(call.run2, LinksPerPage)

----------------------------------------------------------------------------
(* fetch_all_extracted_links.py: one crawler process per link of the list  *)

MaxLinks == 3

\* the lists read_extracted_links can return: the lines of the file that
\* are neither empty nor comments, in file order
LinkLists == {links \in SeqsUpTo({A, B, C}, MaxLinks) : NoDuplicates(links)}

\* what the crawler process started for a link did: it fetched the page of
\* the link, the fetch of the page failed, it ran past the timeout of 120
\* seconds, or the interpreter could not run the script
Outcomes == {"fetched", "fetch_failed", "timeout", "not_run"}

\* result.returncode: a crawler that ran ends with the status of main
returncode(outcome) == IF outcome = "not_run" THEN 2 ELSE main_exit_status

\* run_doc_fetcher: subprocess.run(cmd, capture_output=True, timeout=120)
run_doc_fetcher(url, outcome) ==
    IF outcome = "timeout" THEN [success |-> FALSE, error |-> "Timeout"]
    ELSE IF returncode(outcome) = 0 THEN [success |-> TRUE, error |-> "None"]
    ELSE [success |-> FALSE, error |-> "stderr"]

\* main reads the link list; with no link it returns at once
BatchReadLinks ==
    /\ batch.pc = "idle"
    /\ \E links \in LinkLists :
          batch' = [batch EXCEPT !.links = links,
                                 !.pc = IF links = <<>> THEN "exit" ELSE "loop"]
    /\ UNCHANGED <<config, site, PLAYWRIGHT_AVAILABLE, visited_urls, failed_urls,
                   successful_pages, created_files, disk, base_idx,
                   pages_to_process, processed_count, pc, net, enqueued,
                   dequeued, index, process, call, extractor>>

\* one iteration of "for i, url in enumerate(links, 1)"
BatchProcessLink ==
    /\ batch.pc = "loop"
    /\ Len(batch.runs) < Len(batch.links)
    /\ \E outcome \in Outcomes :
          LET url == batch.links[Len(batch.runs) + 1]
              r == run_doc_fetcher(url, outcome)
          IN  batch' = [batch EXCEPT
                           !.runs = Append(@, [url |-> url, outcome |-> outcome]),
                           !.successful = IF r.success THEN Append(@, url) ELSE @,
                           !.failed = IF r.success THEN @
                                      ELSE Append(@, [url |-> url, error |-> r.error])]
    /\ UNCHANGED <<config, site, PLAYWRIGHT_AVAILABLE, visited_urls, failed_urls,
                   successful_pages, created_files, disk, base_idx,
                   pages_to_process, processed_count, pc, net, enqueued,
                   dequeued, index, process, call, extractor>>

\* after the loop: fetch_results.txt with the counts and the two sections
BatchWriteResults ==
    /\ batch.pc = "loop"
    /\ Len(batch.runs) = Len(batch.links)
    /\ batch' = [batch EXCEPT
                    !.results = <<[total |-> Len(batch.links),
                                   successful |-> Len(batch.successful),
                                   failed |-> Len(batch.failed),
                                   successful_links |-> batch.successful,
                                   failed_links |-> batch.failed]>>,
                    !.pc = "done"]
    /\ UNCHANGED <<config, site, PLAYWRIGHT_AVAILABLE, visited_urls, failed_urls,
                   successful_pages, created_files, disk, base_idx,
                   pages_to_process, processed_count, pc, net, enqueued,
                   dequeued, index, process, call, extractor>>

NextBatch ==
    \/ BatchReadLinks
    \/ BatchProcessLink
    \/ BatchWriteResults

SpecBatch == InitContent /\ [][NextBatch]_vars

\* C25: in the batch runner every link of the list is processed exactly
\* once, in file order, and ends in exactly one of the successful and failed
\* lists; a link is listed as successful only if its crawl run fetched its
\* page, and a link whose page fetch failed or whose run timed out is listed
\* under FAILED LINKS with its error.
C25_BatchAccounting ==
    batch.pc = "done"
        => /\ [i \in 1..Len(batch.runs) |-> batch.runs[i].url] = batch.links
           /\ batch.results[1].successful + batch.results[1].failed = batch.results[1].total
           /\ \A i \in 1..Len(batch.runs) :
                 LET run == batch.runs[i]
                     listed_ok == run.url \in Range(batch.results[1].successful_links)
                     listed_failed == \E f \in Range(batch.results[1].failed_links) :
                                         f.url = run.url
                 IN  /\ listed_ok # listed_failed
                     /\ listed_ok => run.outcome = "fetched"
                     /\ run.outcome \in {"fetch_failed", "timeout"} => listed_failed

----------------------------------------------------------------------------
(* extract_all_links.py.  A page holds the hrefs of its <a> elements,      *)
(* already absolute.                                                       *)

Docs == <<"h1", "/docs">>
DocsTop == <<"h1", "/docs", "#", "top">>
Api == <<"h1", "/api">>
ApiV2 == <<"h1", "/api", "?", "v2">>
GuideUrl == <<"h1", "/guide">>
About == <<"h1", "/about">>
ExtDocs == <<"ext", ".", "io", "/docs">>

LinkUrls == {Docs, DocsTop, Api, ApiV2, GuideUrl, About, ExtDocs}

\* a site whose documentation pages link to each other, with fragments and
\* query strings, to a page that does not look like documentation and to
\* another domain
SiteLinks ==
    [u \in LinkUrls |->
        CASE u \in {Docs, DocsTop} -> Page(<<DocsTop, ApiV2, About, ExtDocs, Api>>, TitleDocs)
          [] u \in {Api, ApiV2} -> Page(<<Docs, GuideUrl, ApiV2>>, TitleApi)
          [] u = GuideUrl -> Page(<<Api, DocsTop, GuideUrl>>, TitleGuide)
          [] OTHER -> Page(<<Docs>>, TitleDocs)]

\* any(keyword in clean_url.lower() for keyword in ['doc', 'api', 'guide',
\* 'tutorial']), on the tokens of the model
looks_like_documentation(url) ==
    \E i \in 1..Len(url) : Lower(url[i]) \in {"/docs", "/api", "/guide"}

\* the queue test without "clean_url not in to_visit"
should_visit_ignoring_queue(url, visited, to_visit) ==
    /\ url \notin visited
    /\ looks_like_documentation(url)

\* "if (clean_url not in visited and clean_url not in to_visit and any(...))"
should_visit(url, visited, to_visit) ==
    /\ url \notin visited
    /\ url \notin Range(to_visit)
    /\ looks_like_documentation(url)

\* the loop over soup.find_all('a', href=True): the links collected and the
\* queue after it
RECURSIVE scan_links(_, _, _, _, _)
scan_links(hrefs, base_domain, visited, to_visit, all_links) ==
    IF hrefs = <<>> THEN [to_visit |-> to_visit, all_links |-> all_links]
    ELSE IF netloc(Head(hrefs)) # base_domain
    THEN scan_links(Tail(hrefs), base_domain, visited, to_visit, all_links)
    ELSE LET url == clean_url(Head(hrefs))
         IN  scan_links(Tail(hrefs), base_domain, visited,
                        IF should_visit(url, visited, to_visit)
                        THEN Append(to_visit, url) ELSE to_visit,
                        all_links \cup {url})

\* fetch_page_content: whether it returns the page, and the requests made;
\* a rendering error falls back to requests
fetch_page_content(url, use_playwright, render_ok, static_ok) ==
    IF use_playwright /\ PLAYWRIGHT_AVAILABLE /\ render_ok
    THEN [ok |-> TRUE, requests |-> <<"render">>]
    ELSE [ok |-> static_ok,
          requests |-> IF use_playwright /\ PLAYWRIGHT_AVAILABLE
                       THEN <<"render", "static">> ELSE <<"static">>]

MaxPages == 3

InitExtractor ==
    InitWith({SiteLinks} \X {FetcherConfig(<<Docs>>, MaxDepth, <<>>, <<>>, FALSE, FALSE)} \X BOOLEAN)

\* extract_all_links(base_url, max_pages, use_playwright) is called
ExtractorStart ==
    /\ extractor.pc = "idle"
    /\ \E url \in {Docs, DocsTop}, max_pages \in 0..MaxPages, use_playwright \in BOOLEAN :
          extractor' = [visited |-> {}, to_visit |-> <<url>>, all_links |-> {},
                        page_count |-> 0, fetched |-> <<>>, pc |-> "loop",
                        base_url |-> url, max_pages |-> max_pages,
                        use_playwright |-> use_playwright]
    /\ UNCHANGED <<config, site, PLAYWRIGHT_AVAILABLE, visited_urls, failed_urls,
                   successful_pages, created_files, disk, base_idx,
                   pages_to_process, processed_count, pc, net, enqueued,
                   dequeued, index, process, call, batch>>

\* one iteration of "while to_visit and page_count < max_pages"
ExtractorScan ==
    /\ extractor.pc = "loop"
    /\ extractor.to_visit # <<>>
    /\ extractor.page_count < extractor.max_pages
    /\ LET current_url == Head(extractor.to_visit)
           rest == Tail(extractor.to_visit)
       IN  IF current_url \in extractor.visited
           THEN extractor' = [extractor EXCEPT !.to_visit = rest]
           ELSE \E render_ok, static_ok \in BOOLEAN :
                  LET visited == extractor.visited \cup {current_url}
                      page == fetch_page_content(current_url, extractor.use_playwright,
                                                 render_ok, static_ok)
                      found == IF page.ok
                               THEN scan_links(site[current_url].links,
                                               netloc(extractor.base_url), visited,
                                               rest, extractor.all_links)
                               ELSE [to_visit |-> rest, all_links |-> extractor.all_links]
                  IN  extractor' = [extractor EXCEPT
                                       !.visited = visited,
                                       !.page_count = @ + 1,
                                       !.to_visit = found.to_visit,
                                       !.all_links = found.all_links,
                                       !.fetched = Append(@, [url |-> current_url,
                                                              ok |-> page.ok,
                                                              requests |-> page.requests])]
    /\ UNCHANGED <<config, site, PLAYWRIGHT_AVAILABLE, visited_urls, failed_urls,
                   successful_pages, created_files, disk, base_idx,
                   pages_to_process, processed_count, pc, net, enqueued,
                   dequeued, index, process, call, batch>>

\* the loop ends: "return sorted(all_links)"
ExtractorReturn ==
    /\ extractor.pc = "loop"
    /\ ~(extractor.to_visit # <<>> /\ extractor.page_count < extractor.max_pages)
    /\ extractor' = [extractor EXCEPT !.pc = "done"]
    /\ UNCHANGED <<config, site, PLAYWRIGHT_AVAILABLE, visited_urls, failed_urls,
                   successful_pages, created_files, disk, base_idx,
                   pages_to_process, processed_count, pc, net, enqueued,
                   dequeued, index, process, call, batch>>

NextExtractor ==
    \/ ExtractorStart
    \/ ExtractorScan
    \/ ExtractorReturn

SpecExtractor == InitExtractor /\ [][NextExtractor]_vars

FetchedUrls == [i \in 1..Len(extractor.fetched) |-> extractor.fetched[i].url]

\* C26: the link extractor makes at most max_pages fetch attempts and never
\* fetches a URL twice: a URL is marked visited before its fetch, so a URL
\* whose fetch fails counts against the page budget and is not retried, and
\* the to-visit queue never holds a duplicate or an already-visited URL.
C26_ExtractorBudget ==
    extractor.pc # "idle"
        => /\ Len(extractor.fetched) <= extractor.max_pages
           /\ extractor.page_count = Len(extractor.fetched)
           /\ NoDuplicates(FetchedUrls)
           /\ Range(FetchedUrls) = extractor.visited
           /\ NoDuplicates(extractor.to_visit)
           /\ Range(extractor.to_visit) \cap extractor.visited = {}

\* the budget ran out with URLs still queued, after a fetch had failed and a
\* later page had linked to the failed URL again
C26_Witness ==
    /\ extractor.pc = "done"
    /\ extractor.to_visit # <<>>
    /\ extractor.page_count = extractor.max_pages
    /\ \E i \in 1..Len(extractor.fetched) : \E j \in (i + 1)..Len(extractor.fetched) :
          /\ ~extractor.fetched[i].ok
          /\ extractor.fetched[j].ok
          /\ \E k \in 1..Len(site[extractor.fetched[j].url].links) :
                clean_url(site[extractor.fetched[j].url].links[k]) = extractor.fetched[i].url

====
